---- MODULE Spec2Model ----
(***************************************************************************)
(* serve-local.py: a static file server rooted at a fixed directory that   *)
(* adds the two cross-origin isolation headers to every header block.      *)
(*                                                                         *)
(* The script is eighteen lines over http.server.SimpleHTTPRequestHandler  *)
(* and socketserver.TCPServer (CPython 3.11).  The inherited methods are   *)
(* modelled from the standard library's source, under the names they have  *)
(* there; the script's own lines are PORT, end_headers, os.chdir and the   *)
(* start-up block.                                                         *)
(*                                                                         *)
(* Text is modelled as a sequence of tokens.  A token is one character     *)
(* ("/", ".", "?", "#", "&"), one percent escape ("%2e", "%2f", "%00") or  *)
(* an opaque run of ordinary name characters ("assets", "secret").  A path *)
(* component is a sequence of tokens, a filesystem path is a sequence of   *)
(* components starting at the filesystem root.                             *)
(***************************************************************************)
EXTENDS Naturals, Sequences, FiniteSets, TLC

VARIABLES
    pc,         \* the main thread's position in the script
    cwd,        \* the process's working directory
    sock,       \* the listening socket: "none", "listening", "closed"
    stdout,     \* the lines print() has written
    exitError,  \* why the process ended: "none" while it runs
    backlog,    \* connections the kernel completed and accept() has not taken
    conn,       \* per connection: the client's side and the handler's output
    fs,         \* the filesystem
    env,        \* what the process started in: the port taken or free, stdout usable or not
    fs0,        \* history: the filesystem when the process started
    log         \* history: the order in which the server accepted and closed connections

vars == <<pc, cwd, sock, stdout, exitError, backlog, conn, fs, env, fs0, log>>

-----------------------------------------------------------------------------
(* Bounds. *)

\* Connections clients open during one run.
MaxConns == 2
\* Tokens in a request path drawn for the path-resolution specification.
MaxPathLen == 5
\* shutil.copyfileobj's buffer length, scaled down to tokens.
COPY_BUFSIZE == 2

-----------------------------------------------------------------------------
(* The script's constants. *)

PORT == 8000

\* A component made of one name.
N(s) == <<s>>

DOT == <<".">>
DOTDOT == <<".", ".">>
NUL == "NUL"

\* os.chdir's argument.
ROOT == <<N("mnt"), N("c"), N("Users"), N("millz"), N("vib34d-fix")>>

\* The directory the script is launched from.
LAUNCH == <<N("home")>>

COEP == "Cross-Origin-Embedder-Policy"
COOP == "Cross-Origin-Opener-Policy"

-----------------------------------------------------------------------------
(* Sequences. *)

Last(s) == s[Len(s)]
Front(s) == SubSeq(s, 1, Len(s) - 1)
IsPrefix(p, s) == Len(p) <= Len(s) /\ SubSeq(s, 1, Len(p)) = p
Range(s) == {s[i] : i \in 1..Len(s)}

RECURSIVE Flatten(_)
Flatten(ss) == IF ss = <<>> THEN <<>> ELSE Head(ss) \o Flatten(Tail(ss))

RECURSIVE MapSeq(_, _)
MapSeq(F(_), s) == IF s = <<>> THEN <<>> ELSE <<F(Head(s))>> \o MapSeq(F, Tail(s))

\* str.split(sep, 1)[0]
RECURSIVE SplitFirst(_, _)
SplitFirst(s, sep) ==
    IF s = <<>> \/ Head(s) = sep THEN <<>>
    ELSE <<Head(s)>> \o SplitFirst(Tail(s), sep)

\* str.split(sep): the pieces between the separators, empty ones included.
RECURSIVE SplitRec(_, _, _)
SplitRec(s, sep, cur) ==
    IF s = <<>> THEN <<cur>>
    ELSE IF Head(s) = sep THEN <<cur>> \o SplitRec(Tail(s), sep, <<>>)
    ELSE SplitRec(Tail(s), sep, Append(cur, Head(s)))

Split(s, sep) == SplitRec(s, sep, <<>>)

\* sep.join(pieces)
RECURSIVE Join(_, _)
Join(pieces, sep) ==
    IF pieces = <<>> THEN <<>>
    ELSE IF Len(pieces) = 1 THEN pieces[1]
    ELSE pieces[1] \o <<sep>> \o Join(Tail(pieces), sep)

\* str.lstrip(ch)
RECURSIVE LStrip(_, _)
LStrip(s, ch) == IF s # <<>> /\ Head(s) = ch THEN LStrip(Tail(s), ch) ELSE s

-----------------------------------------------------------------------------
(* The filesystem: a function from the paths that exist to their nodes. *)

DirNode == [kind |-> "dir", data |-> <<>>]
FileNode(d) == [kind |-> "file", data |-> d]

Parent(p) == IF p = <<>> THEN <<>> ELSE Front(p)

\* The directories above the root directory, a file beside it, and the launch directory.
OutsideTree ==
    (<<>> :> DirNode) @@
    (<<N("mnt")>> :> DirNode) @@
    (<<N("mnt"), N("c")>> :> DirNode) @@
    (<<N("mnt"), N("c"), N("Users")>> :> DirNode) @@
    (<<N("mnt"), N("c"), N("Users"), N("millz")>> :> DirNode) @@
    (<<N("mnt"), N("c"), N("Users"), N("millz"), N("secret")>> :> FileNode(<<"p", "w">>)) @@
    (LAUNCH :> DirNode)

\* A root directory with an entry file, a directory without an index file
\* and a directory with one.
RootTree ==
    (ROOT :> DirNode) @@
    (Append(ROOT, N("live-test.html")) :> FileNode(<<"<", "v", "i", "b", ">">>)) @@
    (Append(ROOT, N("assets")) :> DirNode) @@
    (ROOT \o <<N("assets"), <<"a", "&", "b.txt">>>> :> FileNode(<<"t">>)) @@
    (ROOT \o <<N("assets"), N("Zed.js")>> :> FileNode(<<>>)) @@
    (ROOT \o <<N("assets"), N("img")>> :> DirNode) @@
    (Append(ROOT, N("sub")) :> DirNode) @@
    (ROOT \o <<N("sub"), N("index.html")>> :> FileNode(<<"i", "x">>))

FsFull == RootTree @@ OutsideTree
FsNoRoot == OutsideTree

Filesystems == {FsFull, FsNoRoot}

Exists(f, p) == p \in DOMAIN f
IsDirAt(f, p) == Exists(f, p) /\ f[p].kind = "dir"
IsFileAt(f, p) == Exists(f, p) /\ f[p].kind = "file"

HasNul(comps) == \E i \in 1..Len(comps) : NUL \in Range(comps[i])

\* The kernel's walk of an absolute path: "." stays, ".." goes up, a name goes
\* down; every directory on the way has to exist.
RECURSIVE OsWalk(_, _, _)
OsWalk(f, cur, rest) ==
    IF rest = <<>> THEN [ok |-> Exists(f, cur), path |-> cur]
    ELSE IF ~IsDirAt(f, cur) THEN [ok |-> FALSE, path |-> cur]
    ELSE IF Head(rest) = DOT THEN OsWalk(f, cur, Tail(rest))
    ELSE IF Head(rest) = DOTDOT THEN OsWalk(f, Parent(cur), Tail(rest))
    ELSE OsWalk(f, Append(cur, Head(rest)), Tail(rest))

OsResolve(f, comps) == OsWalk(f, <<>>, comps)

-----------------------------------------------------------------------------
(* Text conversions of the standard library, token by token. *)

\* urllib.parse.unquote
UnquoteToken(t) ==
    CASE t = "%2e" -> "."
      [] t = "%2f" -> "/"
      [] t = "%00" -> NUL
      [] OTHER -> t

unquote(s) == MapSeq(UnquoteToken, s)

\* html.escape(s, quote=False)
EscapeToken(t) ==
    CASE t = "&" -> "&amp;"
      [] t = "<" -> "&lt;"
      [] t = ">" -> "&gt;"
      [] OTHER -> t

html_escape(s) == MapSeq(EscapeToken, s)

\* urllib.parse.quote(s): "/" and the name characters are safe.
QuoteToken(t) ==
    CASE t = "&" -> "%26"
      [] t = "<" -> "%3C"
      [] t = ">" -> "%3E"
      [] t = "?" -> "%3F"
      [] t = "#" -> "%23"
      [] t = NUL -> "%00"
      [] OTHER -> t

quote(s) == MapSeq(QuoteToken, s)

\* str(n) for a length, as decimal digit tokens.
Digit(d) == <<"0", "1", "2", "3", "4", "5", "6", "7", "8", "9">>[d + 1]

RECURSIVE Str(_)
Str(n) == IF n < 10 THEN <<Digit(n)>> ELSE Append(Str(n \div 10), Digit(n % 10))

\* posixpath.normpath
RECURSIVE NormComps(_, _, _)
NormComps(comps, initial_slashes, new_comps) ==
    IF comps = <<>> THEN new_comps
    ELSE LET comp == Head(comps) IN
        IF comp = <<>> \/ comp = DOT
        THEN NormComps(Tail(comps), initial_slashes, new_comps)
        ELSE IF \/ comp # DOTDOT
                \/ (initial_slashes = 0 /\ new_comps = <<>>)
                \/ (new_comps # <<>> /\ Last(new_comps) = DOTDOT)
        THEN NormComps(Tail(comps), initial_slashes, Append(new_comps, comp))
        ELSE IF new_comps # <<>>
        THEN NormComps(Tail(comps), initial_slashes, Front(new_comps))
        ELSE NormComps(Tail(comps), initial_slashes, new_comps)

normpath(path) ==
    IF path = <<>> THEN DOT
    ELSE LET initial_slashes ==
                 IF Head(path) # "/" THEN 0
                 ELSE IF IsPrefix(<<"/", "/">>, path) /\ ~IsPrefix(<<"/", "/", "/">>, path)
                      THEN 2 ELSE 1
             joined == Join(NormComps(Split(path, "/"), initial_slashes, <<>>), "/")
             result == [i \in 1..initial_slashes |-> "/"] \o joined
         IN  IF result = <<>> THEN DOT ELSE result

\* The path part urllib.parse.urlsplit gives for a request target: what
\* precedes the fragment and the query.
urlsplit_path(path) == SplitFirst(SplitFirst(path, "#"), "?")

\* The loop without its test for "." and "..".
RECURSIVE JoinWords_KeepDots(_, _)
JoinWords_KeepDots(path, words) ==
    IF words = <<>> THEN path
    ELSE JoinWords_KeepDots(Append(path, Head(words)), Tail(words))

\* The words of translate_path's loop that are joined to the directory:
\* "." and ".." are ignored.  (os.path.dirname(word) is empty for every
\* word, a word holding no "/" and the platform being POSIX.)
RECURSIVE JoinWords(_, _)
JoinWords(path, words) ==
    IF words = <<>> THEN path
    ELSE IF Head(words) \in {DOT, DOTDOT} THEN JoinWords(path, Tail(words))
    ELSE JoinWords(Append(path, Head(words)), Tail(words))

\* SimpleHTTPRequestHandler.translate_path: the filesystem path of a request
\* target, as its components and whether it ends in "/".
translate_path(directory, path0) ==
    LET path1 == SplitFirst(SplitFirst(path0, "?"), "#")
        trailing_slash == path1 # <<>> /\ Last(path1) = "/"
        path2 == normpath(unquote(path1))
        words == SelectSeq(Split(path2, "/"), LAMBDA w : w # <<>>)
    IN  [comps |-> JoinWords(directory, words), slash |-> trailing_slash]

-----------------------------------------------------------------------------
(* Requests. *)

\* What a client sends on a connection: nothing before closing ("eof"), a
\* request line longer than 65536 bytes ("toolong"), or a request line of
\* nwords words and the headers the handler reads.  With one word only the
\* command is there; with four the last is the version.
Req(nwords, command, path, version) ==
    [kind |-> "line", nwords |-> nwords, command |-> command, path |-> path,
     version |-> version, ims |-> "absent", connection |-> ""]

NoReq == [Req(0, "", <<>>, "") EXCEPT !.kind = "none"]
EofReq == [Req(0, "", <<>>, "") EXCEPT !.kind = "eof"]
TooLongReq == [Req(3, "GET", <<"/">>, "HTTP/1.1") EXCEPT !.kind = "toolong"]

Get(path, version) == Req(3, "GET", path, version)

LiveTest == <<"/", "live-test.html">>
Missing == <<"/", "missing.html">>
Assets == <<"/", "assets", "/">>

\* The requests clients send in the server specification: a file, the same
\* without a version (HTTP/0.9), a path that is not there, a directory, a
\* path above the root directory, a path with a NUL, a method the handler
\* lacks, an empty request line, and no request at all.
Requests ==
    { Get(LiveTest, "HTTP/1.1"),
      Req(2, "GET", LiveTest, ""),
      Get(Missing, "HTTP/1.0"),
      Get(Assets, "HTTP/1.1"),
      Get(<<".", ".", "/", "secret">>, "HTTP/1.0"),
      Get(<<"/", "%00">>, "HTTP/1.1"),
      Req(3, "POST", LiveTest, "HTTP/1.1"),
      Req(0, "", <<>>, ""),
      EofReq }

\* The request targets of the request specification.
NamedPaths ==
    { LiveTest, Missing, Assets,
      <<"/", "live-test.html", "/">>,
      <<"/", "assets">>,
      <<"/", "assets", "?", "x">>,
      <<"/", "assets", "/", "a", "&", "b.txt">>,
      <<"/", "assets", "/", "img", "/">>,
      <<"/", "sub", "/">>,
      <<"/", "sub", "/", "index.html">>,
      <<"/">>,
      <<"/", "/", "assets", "/", "?", "x">>,
      <<"/", ".", ".", "/", "secret">>,
      <<"/", "%2e", "%2e", "%2f", "secret">>,
      <<"/", "%00">>,
      <<"/", "%00", "/">> }

Versions == {"HTTP/0.9", "HTTP/1.0", "HTTP/1.1", "HTTP/2.0", "HTTX/1.1"}

\* The requests of the request specification: every shape of request line
\* over these targets, with and without a conditional header.
RequestShapes ==
    { [Req(n, cmd, IF n >= 2 THEN path ELSE <<>>, IF n >= 3 THEN v ELSE "")
          EXCEPT !.ims = i, !.connection = k] :
        n \in 0..4, cmd \in {"GET", "HEAD", "POST"}, path \in NamedPaths,
        v \in Versions, i \in {"absent", "before", "notbefore"},
        k \in {"", "keep-alive"} }
    \cup {TooLongReq, EofReq}

\* The tokens request targets are drawn from in the path specification.
PathTokens == {"/", ".", "%2e", "%2f", "secret", "assets"}

RECURSIVE SeqsUpTo(_, _)
SeqsUpTo(S, n) ==
    IF n = 0 THEN {<<>>}
    ELSE LET shorter == SeqsUpTo(S, n - 1)
         IN  shorter \cup {Append(q, x) : q \in {r \in shorter : Len(r) = n - 1}, x \in S}

PathRequests == {Get(path, "HTTP/1.0") : path \in SeqsUpTo(PathTokens, MaxPathLen) \ {<<>>}}

-----------------------------------------------------------------------------
(* BaseHTTPRequestHandler: the header buffer and the output stream. *)

\* One write: the status line, one header line, the blank line that ends the
\* header block, or a piece of the body.  Text that varies is in data.
Item(t, k, v, data) == [t |-> t, k |-> k, v |-> v, data |-> data]

protocol_version == "HTTP/1.0"
default_request_version == "HTTP/0.9"

\* A handler as its constructor leaves it: SimpleHTTPRequestHandler.__init__
\* reads the working directory.  No _headers_buffer attribute is the empty
\* buffer.  fsys is the filesystem as the handler's system calls find and leave it.
NewHandler(directory, f) ==
    [directory |-> directory,
     fsys |-> f,
     request_version |-> "", command |-> "", path |-> <<>>,
     ims |-> "absent",
     close_connection |-> TRUE,
     parsed |-> FALSE,
     headers_buffer |-> <<>>,
     wfile |-> <<>>,
     f |-> <<>>,
     raised |-> FALSE,
     opened |-> {}]

send_response_only(h, code, message) ==
    IF h.request_version # "HTTP/0.9"
    THEN [h EXCEPT !.headers_buffer =
              Append(@, Item("status", protocol_version, code, <<message>>))]
    ELSE h

SetCloseConnection(h, keyword, value) ==
    IF keyword = "Connection" /\ value = "close" THEN [h EXCEPT !.close_connection = TRUE]
    ELSE IF keyword = "Connection" /\ value = "keep-alive"
    THEN [h EXCEPT !.close_connection = FALSE]
    ELSE h

\* send_header with the value's varying text in data.
send_header_data(h, keyword, value, data) ==
    SetCloseConnection(
        IF h.request_version # "HTTP/0.9"
        THEN [h EXCEPT !.headers_buffer = Append(@, Item("header", keyword, value, data))]
        ELSE h,
        keyword, value)

send_header(h, keyword, value) == send_header_data(h, keyword, value, <<>>)

flush_headers(h) ==
    [h EXCEPT !.wfile = @ \o h.headers_buffer, !.headers_buffer = <<>>]

\* BaseHTTPRequestHandler.end_headers
base_end_headers(h) ==
    IF h.request_version # "HTTP/0.9"
    THEN flush_headers([h EXCEPT !.headers_buffer = Append(@, Item("end", "", "", <<>>))])
    ELSE h

\* end_headers without the override: the two headers are never added.
end_headers_NotOverridden(h) == base_end_headers(h)

\* MyHTTPRequestHandler.end_headers
end_headers(h) ==
    base_end_headers(
        send_header(
            send_header(h, COEP, "require-corp"),
            COOP, "same-origin"))

send_response(h, code, message) ==
    send_header(
        send_header(send_response_only(h, code, message), "Server", "SimpleHTTP/0.6"),
        "Date", "now")

\* The default reason phrases of the codes the handler sends.
ShortMsg(code) ==
    CASE code = "414" -> "Request-URI Too Long"
      [] code = "404" -> "Not Found"
      [] code = "400" -> "Bad Request"
      [] code = "501" -> "Not Implemented"
      [] code = "505" -> "HTTP Version Not Supported"
      [] code = "304" -> "Not Modified"
      [] code = "301" -> "Moved Permanently"
      [] code = "200" -> "OK"

\* error_message_format filled in: the template around the code and the escaped message.
ErrorBody(code, message) ==
    <<"<p>Error code: ", code, "</p><p>Message: ">> \o html_escape(<<message>>) \o <<"</p>">>

write(h, t, k, data) == [h EXCEPT !.wfile = Append(@, Item(t, k, "", data))]

\* send_error ending its headers with the base class's end_headers.
send_error_BaseEnd(h, code, message) ==
    LET body == ErrorBody(code, message)
        h1 == send_header(send_response(h, code, message), "Connection", "close")
        h2 == send_header(h1, "Content-Type", "text/html;charset=utf-8")
        h3 == send_header_data(h2, "Content-Length", "", Str(Len(body)))
        h4 == base_end_headers(h3)
    IN  IF h.command # "HEAD" THEN write(h4, "body", "error", body) ELSE h4

\* send_error's last statement: the page is written unless the command is HEAD.
write_error_body(h, body) ==
    IF h.command # "HEAD" THEN write(h, "body", "error", body) ELSE h

\* send_error: every code the handler sends is 400 or more, so there is a body.
send_error(h, code, message) ==
    LET body == ErrorBody(code, message)
        h1 == send_header(send_response(h, code, message), "Connection", "close")
        h2 == send_header(h1, "Content-Type", "text/html;charset=utf-8")
        h3 == send_header_data(h2, "Content-Length", "", Str(Len(body)))
    IN  write_error_body(end_headers(h3), body)

\* The version word parsed: whether it has the form HTTP/<int>.<int>, and the numbers.
VersionNumber(version) ==
    CASE version = "HTTP/0.9" -> [ok |-> TRUE, major |-> 0, minor |-> 9]
      [] version = "HTTP/1.0" -> [ok |-> TRUE, major |-> 1, minor |-> 0]
      [] version = "HTTP/1.1" -> [ok |-> TRUE, major |-> 1, minor |-> 1]
      [] version = "HTTP/2.0" -> [ok |-> TRUE, major |-> 2, minor |-> 0]
      [] OTHER -> [ok |-> FALSE, major |-> 0, minor |-> 0]

\* parse_request's reading of the headers, after the request line was accepted.
parse_headers(h, req) ==
    LET h1 == [h EXCEPT !.ims = req.ims]
        h2 == IF req.connection = "close" THEN [h1 EXCEPT !.close_connection = TRUE]
              ELSE IF req.connection = "keep-alive" /\ protocol_version = "HTTP/1.1"
              THEN [h1 EXCEPT !.close_connection = FALSE]
              ELSE h1
    IN  [h2 EXCEPT !.parsed = TRUE]

\* parse_request's end: the command and the path are stored, a leading "//"
\* is reduced to "/".
parse_target(h, req) ==
    parse_headers(
        [h EXCEPT !.command = req.command,
                  !.path = IF IsPrefix(<<"/", "/">>, req.path)
                           THEN <<"/">> \o LStrip(req.path, "/")
                           ELSE req.path],
        req)

\* parse_request from the check of the number of words on.
parse_words(h, req) ==
    IF ~(2 <= req.nwords /\ req.nwords <= 3)
    THEN send_error(h, "400", "Bad request syntax")
    ELSE IF req.nwords = 2 /\ req.command # "GET"
    THEN send_error([h EXCEPT !.close_connection = TRUE], "400", "Bad HTTP/0.9 request type")
    ELSE parse_target(h, req)

\* BaseHTTPRequestHandler.parse_request; parsed tells its return value.
parse_request(h0, req) ==
    LET h == [h0 EXCEPT !.command = "None",
                        !.request_version = default_request_version,
                        !.close_connection = TRUE]
        vn == VersionNumber(req.version)
    IN  IF req.nwords = 0 THEN h
        ELSE IF req.nwords >= 3
        THEN IF ~vn.ok
             THEN send_error(h, "400", "Bad request version")
             ELSE LET h1 == IF (vn.major > 1 \/ (vn.major = 1 /\ vn.minor >= 1))
                               /\ protocol_version = "HTTP/1.1"
                            THEN [h EXCEPT !.close_connection = FALSE]
                            ELSE h
                  IN  IF vn.major >= 2
                      THEN send_error(h1, "505", "Invalid HTTP version")
                      ELSE parse_words([h1 EXCEPT !.request_version = req.version], req)
        ELSE parse_words(h, req)

-----------------------------------------------------------------------------
(* SimpleHTTPRequestHandler. *)

\* One read and one write instead of the loop.
copyfile_OneRead(h, source) ==
    IF source = <<>> THEN h
    ELSE write(h, "body", "",
               SubSeq(source, 1, IF Len(source) < COPY_BUFSIZE THEN Len(source) ELSE COPY_BUFSIZE))

\* shutil.copyfileobj: read COPY_BUFSIZE at a time and write what was read.
RECURSIVE copyfile(_, _)
copyfile(h, source) ==
    IF source = <<>> THEN h
    ELSE LET n == IF Len(source) < COPY_BUFSIZE THEN Len(source) ELSE COPY_BUFSIZE
         IN  copyfile(write(h, "body", "", SubSeq(source, 1, n)),
                      SubSeq(source, n + 1, Len(source)))

\* guess_type, by the extension of the last component.
guess_type(comps) ==
    LET last == Last(Last(comps))
    IN  CASE last \in {"live-test.html", "index.html", "index.htm"} -> "text/html"
          [] last = "b.txt" -> "text/plain"
          [] last = "Zed.js" -> "application/javascript"
          [] OTHER -> "application/octet-stream"

\* os.path.isdir and os.path.isfile: false for a path with an embedded NUL.
os_path_isdir(f, comps) ==
    ~HasNul(comps) /\ OsResolve(f, comps).ok /\ IsDirAt(f, OsResolve(f, comps).path)

os_path_isfile(f, comps) ==
    ~HasNul(comps) /\ OsResolve(f, comps).ok /\ IsFileAt(f, OsResolve(f, comps).path)

\* os.listdir: the names in a directory.
os_listdir(f, dir) == {Last(p) : p \in {q \in DOMAIN f : q # <<>> /\ Parent(q) = dir}}

\* The place of name.lower() in the order of strings, for the names of the
\* filesystems above ("Zed.js" sorts as "zed.js", after "img").
LowerRank(name) ==
    CASE name = <<"a", "&", "b.txt">> -> 1
      [] name = N("assets") -> 2
      [] name = N("img") -> 3
      [] name = N("index.html") -> 4
      [] name = N("live-test.html") -> 5
      [] name = N("sub") -> 6
      [] name = N("Zed.js") -> 7
      [] OTHER -> 8

\* list.sort(key=lambda a: a.lower())
RECURSIVE SortNames(_)
SortNames(names) ==
    IF names = {} THEN <<>>
    ELSE LET first == CHOOSE n \in names : \A m \in names : LowerRank(n) <= LowerRank(m)
         IN  <<first>> \o SortNames(names \ {first})

\* The link's quoting used for the displayed name too.
ListEntry_QuotedText(f, dir, name) ==
    LET shown == IF IsDirAt(f, Append(dir, name)) THEN Append(name, "/") ELSE name
    IN  <<"<li><a href=\"">> \o quote(shown) \o <<"\">">> \o quote(shown) \o <<"</a></li>">>

\* One line of the listing.  (The filesystems hold no symbolic links.)
ListEntry(f, dir, name) ==
    LET shown == IF IsDirAt(f, Append(dir, name)) THEN Append(name, "/") ELSE name
    IN  <<"<li><a href=\"">> \o quote(shown) \o <<"\">">> \o html_escape(shown)
            \o <<"</a></li>">>

RECURSIVE ListEntries(_, _, _)
ListEntries(f, dir, names) ==
    IF names = <<>> THEN <<>>
    ELSE ListEntry(f, dir, Head(names)) \o ListEntries(f, dir, Tail(names))

\* list_directory: the generated page, its headers, and the page as the file to copy.
list_directory(h, comps) ==
    LET f == h.fsys
        dir == OsResolve(f, comps).path
        title == <<"Directory listing for ">> \o html_escape(unquote(h.path))
        encoded == <<"<html><title>">> \o title \o <<"</title><h1>">> \o title
                       \o <<"</h1><ul>">>
                       \o ListEntries(f, dir, SortNames(os_listdir(f, dir)))
                       \o <<"</ul></html>">>
        h1 == send_header(send_response(h, "200", "OK"), "Content-type", "text/html; charset=utf-8")
        h2 == send_header_data(h1, "Content-Length", "", Str(Len(encoded)))
    IN  [end_headers(h2) EXCEPT !.f = <<encoded>>, !.opened = @ \cup {dir}]

\* A mode that truncates.
OpenMode_Write == "wb"

\* The mode send_head opens a file with.
OpenMode == "rb"

\* The filesystem after open(path, mode): reading leaves it alone, writing
\* truncates the file or creates it.
FsAfterOpen(f, comps, mode) ==
    IF mode = "rb" \/ HasNul(comps) THEN f
    ELSE LET r == OsResolve(f, comps)
         IN  IF r.ok /\ IsFileAt(f, r.path) THEN [f EXCEPT ![r.path] = FileNode(<<>>)]
             ELSE IF ~r.ok /\ IsDirAt(f, Parent(r.path)) /\ Len(r.path) = Len(comps)
             THEN (r.path :> FileNode(<<>>)) @@ f
             ELSE f

\* send_head once the path is that of a file to open.
send_file(h, comps, slash) ==
    LET f == h.fsys
        ctype == guess_type(comps)
        r == OsResolve(f, comps)
    IN  IF slash THEN send_error(h, "404", "File not found")
        ELSE IF HasNul(comps) THEN [h EXCEPT !.raised = TRUE]
        ELSE IF ~(r.ok /\ IsFileAt(f, r.path)) THEN send_error(h, "404", "File not found")
        ELSE LET after == FsAfterOpen(f, comps, OpenMode)
                 data == after[r.path].data
                 ho == [h EXCEPT !.opened = @ \cup {r.path}, !.fsys = after]
             IN  IF h.ims = "notbefore"
                 THEN end_headers(send_response(ho, "304", "Not Modified"))
                 ELSE LET h1 == send_header(send_response(ho, "200", "OK"), "Content-type", ctype)
                          h2 == send_header_data(h1, "Content-Length", "", Str(Len(data)))
                          h3 == send_header(h2, "Last-Modified", "mtime")
                      IN  [end_headers(h3) EXCEPT !.f = <<data>>]

\* SimpleHTTPRequestHandler.send_head; f holds the file to copy, if any.
send_head(h) ==
    LET f == h.fsys
        tp == translate_path(h.directory, h.path)
    IN  IF os_path_isdir(f, tp.comps)
        THEN LET parts_path == urlsplit_path(h.path)
             IN  IF ~(parts_path # <<>> /\ Last(parts_path) = "/")
                 THEN LET h1 == send_response(h, "301", "Moved Permanently")
                          h2 == send_header_data(h1, "Location", "",
                                    parts_path \o <<"/">>
                                        \o SubSeq(h.path, Len(parts_path) + 1, Len(h.path)))
                      IN  end_headers(send_header(h2, "Content-Length", "0"))
                 ELSE IF os_path_isfile(f, Append(tp.comps, N("index.html")))
                 THEN send_file(h, Append(tp.comps, N("index.html")), FALSE)
                 ELSE IF os_path_isfile(f, Append(tp.comps, N("index.htm")))
                 THEN send_file(h, Append(tp.comps, N("index.htm")), FALSE)
                 ELSE list_directory(h, tp.comps)
        ELSE send_file(h, tp.comps, tp.slash)

\* do_GET after send_head: the file send_head returned, if any, is copied out.
copy_returned_file(h) ==
    IF h.f # <<>> /\ ~h.raised THEN copyfile(h, h.f[1]) ELSE h

do_GET(h) == copy_returned_file(send_head(h))

do_HEAD(h) == send_head(h)

\* handle_one_request after parse_request: nothing more when it returned
\* False, else the do_ method of the command, or 501 when there is none.
call_method(h) ==
    IF ~h.parsed THEN h
    ELSE IF h.command = "GET" THEN do_GET(h)
    ELSE IF h.command = "HEAD" THEN do_HEAD(h)
    ELSE send_error(h, "501", "Unsupported method")

\* BaseHTTPRequestHandler.handle_one_request, the request line being req.
handle_one_request(h, req) ==
    IF req.kind = "toolong"
    THEN send_error([h EXCEPT !.request_version = "", !.command = ""],
                    "414", ShortMsg("414"))
    ELSE IF req.kind = "eof" THEN [h EXCEPT !.close_connection = TRUE]
    ELSE call_method(parse_request(h, req))

-----------------------------------------------------------------------------
(* The script: its statements in order, and the server loop. *)

ConnIds == 1..MaxConns

\* The announcement moved above the constructor.
ProgramOrder_AnnounceFirst == <<"chdir", "print1", "print2", "bind", "serve">>

\* os.chdir moved below the constructor.
ProgramOrder_BindFirst == <<"bind", "chdir", "print1", "print2", "serve">>

\* Lines 14 to 19: os.chdir, the TCPServer constructor (bind and listen), the
\* two print calls, serve_forever.
ProgramOrder == <<"chdir", "bind", "print1", "print2", "serve">>

After(stmt) ==
    LET i == CHOOSE j \in 1..Len(ProgramOrder) : ProgramOrder[j] = stmt
    IN  ProgramOrder[i + 1]

\* ThreadingMixIn.process_request: the handler runs in a thread of its own and
\* the main thread goes back to the loop.
AfterAccept_Threading == "serve"

\* Where the main thread is once process_request has the accepted connection:
\* TCPServer.process_request calls finish_request itself, so the thread is in
\* the handler until the handler returns.
AfterAccept == "handling"

\* _handle_request_noblock after process_request returned or raised: an
\* Exception is reported by handle_error and the loop goes on.
AfterRequest(raised) == [pc |-> "serve", exitError |-> "none"]

Line1 == "Serving VIB34D system at http://localhost:8000"
Line2 == "Live test: http://localhost:8000/live-test.html"

IdleConn ==
    [st |-> "idle", sent |-> NoReq, req |-> NoReq, wfile |-> <<>>, raised |-> FALSE,
     directory |-> <<>>, opened |-> {}]

Init ==
    /\ pc = ProgramOrder[1]
    /\ cwd = LAUNCH
    /\ sock = "none"
    /\ stdout = <<>>
    /\ exitError = "none"
    /\ backlog = <<>>
    /\ conn = [c \in ConnIds |-> IdleConn]
    /\ fs \in Filesystems
    /\ env \in [portBusy : BOOLEAN, stdoutOk : BOOLEAN]
    /\ fs0 = fs
    /\ log = <<>>

\* The process ends on an uncaught exception or a signal; its sockets close.
Exit(why) ==
    /\ pc' = "exited"
    /\ exitError' = why
    /\ sock' = IF sock = "listening" THEN "closed" ELSE sock

\* Line 14, the directory being there.
Chdir ==
    /\ pc = "chdir"
    /\ IsDirAt(fs, ROOT)
    /\ cwd' = ROOT
    /\ pc' = After("chdir")
    /\ UNCHANGED <<sock, stdout, exitError, backlog, conn, fs, env, fs0, log>>

\* Line 14, the directory missing: FileNotFoundError.
ChdirFail ==
    /\ pc = "chdir"
    /\ ~IsDirAt(fs, ROOT)
    /\ Exit("chdir")
    /\ UNCHANGED <<cwd, stdout, backlog, conn, fs, env, fs0, log>>

\* Line 16: TCPServer.__init__ binds the port and listens.
Bind ==
    /\ pc = "bind"
    /\ ~env.portBusy
    /\ sock' = "listening"
    /\ pc' = After("bind")
    /\ UNCHANGED <<cwd, stdout, exitError, backlog, conn, fs, env, fs0, log>>

\* Line 16, the port taken (allow_reuse_address is False): server_bind raises
\* OSError, the constructor closes the socket and raises on.
BindFail ==
    /\ pc = "bind"
    /\ env.portBusy
    /\ pc' = "exited"
    /\ exitError' = "bind"
    /\ sock' = "closed"
    /\ UNCHANGED <<cwd, stdout, backlog, conn, fs, env, fs0, log>>

\* Lines 17 and 18.
Announce ==
    /\ pc \in {"print1", "print2"}
    /\ env.stdoutOk
    /\ stdout' = Append(stdout, IF pc = "print1" THEN Line1 ELSE Line2)
    /\ pc' = After(pc)
    /\ UNCHANGED <<cwd, sock, exitError, backlog, conn, fs, env, fs0, log>>

\* Lines 17 and 18, stdout closed or unable to encode the line: print raises.
AnnounceFail ==
    /\ pc \in {"print1", "print2"}
    /\ ~env.stdoutOk
    /\ Exit("print")
    /\ UNCHANGED <<cwd, stdout, backlog, conn, fs, env, fs0, log>>

\* A client connects: the kernel completes the handshake on the listening
\* socket and queues the connection.
ClientConnect(c) ==
    /\ sock = "listening"
    /\ conn[c].st = "idle"
    /\ conn' = [conn EXCEPT ![c].st = "queued"]
    /\ backlog' = Append(backlog, c)
    /\ UNCHANGED <<pc, cwd, sock, stdout, exitError, fs, env, fs0, log>>

\* A client sends its request, or closes its side without one.
ClientSend(c, r) ==
    /\ pc # "exited"
    /\ conn[c].st \in {"queued", "accepted"}
    /\ conn[c].sent = NoReq
    /\ conn' = [conn EXCEPT ![c].sent = r]
    /\ UNCHANGED <<pc, cwd, sock, stdout, exitError, backlog, fs, env, fs0, log>>

\* serve_forever: the listening socket is readable, get_request accepts the
\* connection, finish_request constructs the handler, which reads the request line.
Accept ==
    /\ pc = "serve"
    /\ backlog # <<>>
    /\ LET c == Head(backlog)
       IN  /\ conn' = [conn EXCEPT ![c].st = "accepted", ![c].directory = cwd]
           /\ log' = Append(log, <<"accept", c>>)
    /\ backlog' = Tail(backlog)
    /\ pc' = AfterAccept
    /\ UNCHANGED <<cwd, sock, stdout, exitError, fs, env, fs0>>

\* The handler of an accepted connection, from the arrival of the request line
\* to shutdown_request: handle_one_request, finish, and the connection closed,
\* unless close_connection is false and the handler reads the next request line.
Handled(c, h) ==
    LET done == h.raised \/ h.close_connection
        out == AfterRequest(h.raised)
    IN  /\ conn' = [conn EXCEPT ![c].st = IF done THEN "closed" ELSE "accepted",
                                ![c].sent = IF done THEN @ ELSE NoReq,
                                ![c].req = conn[c].sent,
                                ![c].wfile = @ \o h.wfile,
                                ![c].raised = h.raised,
                                ![c].opened = @ \cup h.opened]
        /\ fs' = h.fsys
        /\ log' = IF done THEN Append(log, <<"close", c>>) ELSE log
        /\ pc' = IF done THEN out.pc ELSE pc
        /\ exitError' = IF done THEN out.exitError ELSE exitError
        /\ sock' = IF done /\ out.pc = "exited" THEN "closed" ELSE sock

Handle(c) ==
    /\ pc = "handling"
    /\ conn[c].st = "accepted"
    /\ conn[c].sent # NoReq
    /\ Handled(c, handle_one_request(NewHandler(conn[c].directory, fs), conn[c].sent))
    /\ UNCHANGED <<cwd, stdout, backlog, env, fs0>>

\* The process is ended from outside: a signal.
Terminate ==
    /\ pc # "exited"
    /\ Exit("signal")
    /\ UNCHANGED <<cwd, stdout, backlog, conn, fs, env, fs0, log>>

Next ==
    \/ Chdir
    \/ ChdirFail
    \/ Bind
    \/ BindFail
    \/ Announce
    \/ AnnounceFail
    \/ \E c \in ConnIds : ClientConnect(c)
    \/ \E c \in ConnIds, r \in Requests : ClientSend(c, r)
    \/ Accept
    \/ \E c \in ConnIds : Handle(c)
    \/ Terminate

Spec == Init /\ [][Next]_vars

\* The server serving, one client connected with its request sent: the state
\* the handler's specifications start in.
Serving(requests) ==
    /\ pc = "serve"
    /\ cwd = ROOT
    /\ sock = "listening"
    /\ stdout = <<Line1, Line2>>
    /\ exitError = "none"
    /\ backlog = <<1>>
    /\ \E r \in requests :
           conn = [c \in ConnIds |->
                      IF c = 1 THEN [IdleConn EXCEPT !.st = "queued", !.sent = r]
                      ELSE IdleConn]
    /\ fs = FsFull
    /\ env = [portBusy |-> FALSE, stdoutOk |-> TRUE]
    /\ fs0 = fs
    /\ log = <<>>

NextServe ==
    \/ Accept
    \/ \E c \in ConnIds : Handle(c)

\* The handler on every shape of request.
SpecRequest == Serving(RequestShapes) /\ [][NextServe]_vars

\* The handler on every request target up to MaxPathLen tokens.
SpecPath == Serving(PathRequests) /\ [][NextServe]_vars

\* The server's steps are taken when they can be; clients and signals owe nothing.
\* The handler's result on each request of Requests, as a table, and
\* Handle(c) with its result read from the table: the same steps.
Responses ==
    [d \in {LAUNCH, ROOT}, f \in Filesystems, r \in Requests |->
        handle_one_request(NewHandler(d, f), r)]

HandleServed(c) ==
    /\ pc = "handling"
    /\ conn[c].st = "accepted"
    /\ conn[c].sent # NoReq
    /\ Handled(c, Responses[conn[c].directory, fs, conn[c].sent])
    /\ UNCHANGED <<cwd, stdout, backlog, env, fs0>>

FairSpec ==
    /\ Spec
    /\ WF_vars(Chdir \/ ChdirFail \/ Bind \/ BindFail \/ Announce \/ AnnounceFail)
    /\ WF_vars(Accept)
    /\ \A c \in ConnIds : WF_vars(HandleServed(c))

-----------------------------------------------------------------------------
(* What a response is, read off the bytes written to a connection. *)

StatusOf(w) == IF w # <<>> /\ w[1].t = "status" THEN w[1].v ELSE "none"

HeaderBlockEnds(w) == {e \in 1..Len(w) : w[e].t = "end"}

HasHeaderBefore(w, e, keyword, value) ==
    \E i \in 1..(e - 1) : w[i] = Item("header", keyword, value, <<>>)

\* Every header block of w holds the two headers before the line that ends it.
Isolated(w) ==
    /\ HeaderBlockEnds(w) # {}
    /\ \A e \in HeaderBlockEnds(w) :
           /\ HasHeaderBefore(w, e, COEP, "require-corp")
           /\ HasHeaderBefore(w, e, COOP, "same-origin")
    /\ \A i \in 1..Len(w) :
           w[i].t \in {"status", "header"} => \E e \in HeaderBlockEnds(w) : i < e

BodyOf(w) == Flatten(MapSeq(LAMBDA it : it.data, SelectSeq(w, LAMBDA it : it.t = "body")))

Closed(c) == conn[c].st = "closed"

\* A GET request line with a version of HTTP/1.x.
PlainGet(r) ==
    /\ r.kind = "line"
    /\ r.nwords = 3
    /\ r.command = "GET"
    /\ r.version \in {"HTTP/1.0", "HTTP/1.1"}

\* A request target made of names and single slashes after a leading slash,
\* and the path under the root directory it names.
NameTokens == {"live-test.html", "missing.html", "assets", "a", "&", "b.txt", "img", "sub",
               "index.html", "Zed.js"}

PlainTarget(path) ==
    /\ path # <<>>
    /\ Head(path) = "/"
    /\ \A i \in 1..Len(path) : path[i] \in NameTokens \cup {"/"}
    /\ \A i \in 1..(Len(path) - 1) : ~(path[i] = "/" /\ path[i + 1] = "/")

TargetOf(path) == ROOT \o SelectSeq(Split(path, "/"), LAMBDA w : w # <<>>)

\* The entries of a listing: the displayed text of each <li> line, unescaped.
UnescapeToken(t) ==
    CASE t = "&amp;" -> "&"
      [] t = "&lt;" -> "<"
      [] t = "&gt;" -> ">"
      [] OTHER -> t

RECURSIVE ListedNames(_)
ListedNames(b) ==
    IF Len(b) < 2 THEN {}
    ELSE IF b[1] = "<li><a href=\""
    THEN LET href == SplitFirst(Tail(b), "\">")
             rest == SubSeq(b, Len(href) + 3, Len(b))
             text == SplitFirst(rest, "</a></li>")
         IN  {MapSeq(UnescapeToken, text)} \cup ListedNames(SubSeq(rest, Len(text) + 1, Len(rest)))
    ELSE ListedNames(Tail(b))

-----------------------------------------------------------------------------
(* The claims. *)

\* C1, as claimed: every response the server writes, whatever its status,
\* holds both headers before the end of its header block.
C1_EveryResponseIsolated ==
    \A c \in ConnIds : conn[c].wfile # <<>> => Isolated(conn[c].wfile)

\* The requests the handler answers in the HTTP/0.9 way, with a body and no
\* status line or header: a request line of one or two words, or one whose
\* version is HTTP/0.9, is not of the form HTTP/<int>.<int>, or is 2.0 or more.
AnsweredAsHttp09(r) ==
    /\ r.kind = "line"
    /\ r.nwords >= 1
    /\ \/ r.nwords <= 2
       \/ r.version \notin {"HTTP/1.0", "HTTP/1.1"}

\* C1, amended: every response that has a header block holds both headers
\* before the line that ends the block, and the responses without a header
\* block are exactly those to requests answered in the HTTP/0.9 way.
C1_HeaderBlocksIsolated ==
    \A c \in ConnIds :
        conn[c].wfile # <<>> =>
            IF AnsweredAsHttp09(conn[c].req)
            THEN \A i \in 1..Len(conn[c].wfile) : conn[c].wfile[i].t = "body"
            ELSE Isolated(conn[c].wfile)

\* C1's case: an error response other than 404 was written, with both headers.
C1_Witness ==
    \E c \in ConnIds : StatusOf(conn[c].wfile) = "501" /\ Isolated(conn[c].wfile)

\* C2: the port is bound before anything is announced, both lines are
\* announced before a connection is accepted, and with the port taken the
\* process ends on the bind error with nothing announced and nothing served.
C2_BindThenAnnounceThenServe ==
    /\ stdout # <<>> => sock # "none"
    /\ \A c \in ConnIds : conn[c].st \in {"accepted", "closed"} => stdout = <<Line1, Line2>>
    /\ pc \in {"serve", "handling"} => stdout = <<Line1, Line2>> /\ sock = "listening"
    /\ exitError = "bind" => env.portBusy
    /\ env.portBusy =>
           /\ stdout = <<>>
           /\ sock # "listening"
           /\ \A c \in ConnIds : conn[c] = IdleConn
           /\ pc = "exited" => exitError \in {"bind", "chdir", "signal"}
           /\ pc \in {"chdir", "bind", "exited"}

\* C2's case: a connection was accepted, after both lines.
C2_Witness ==
    \E c \in ConnIds : conn[c].st = "accepted" /\ Len(stdout) = 2

\* C3: no request target makes the handler open or list anything outside the
\* root directory.
C3_NothingOutsideRoot ==
    \A c \in ConnIds : \A p \in conn[c].opened : IsPrefix(ROOT, p)

\* C3's case: a target that climbs to a file that exists beside the root
\* directory was answered, with 404.
C3_Witness ==
    \E c \in ConnIds :
        /\ Closed(c)
        /\ conn[c].req.path = <<"%2e", "%2e", "/", "secret">>
        /\ IsFileAt(fs, Append(Parent(ROOT), N("secret")))
        /\ StatusOf(conn[c].wfile) = "404"

\* C4: a GET of a path with nothing at it is answered 404, with both headers.
C4_MissingIs404 ==
    \A c \in ConnIds :
        (/\ Closed(c)
         /\ PlainGet(conn[c].req)
         /\ PlainTarget(conn[c].req.path)
         /\ ~Exists(fs, TargetOf(conn[c].req.path)))
        => /\ StatusOf(conn[c].wfile) = "404"
           /\ Isolated(conn[c].wfile)

C4_Witness ==
    \E c \in ConnIds :
        /\ Closed(c)
        /\ conn[c].req = Get(Missing, "HTTP/1.1")
        /\ StatusOf(conn[c].wfile) = "404"

\* C5: a GET of a file's path is answered 200 with the file's contents as
\* the body (the request not being conditional on a date the file is not newer than).
C5_FileServedWhole ==
    \A c \in ConnIds :
        (/\ Closed(c)
         /\ PlainGet(conn[c].req)
         /\ conn[c].req.ims # "notbefore"
         /\ PlainTarget(conn[c].req.path)
         /\ Last(conn[c].req.path) # "/"
         /\ IsFileAt(fs, TargetOf(conn[c].req.path)))
        => /\ StatusOf(conn[c].wfile) = "200"
           /\ BodyOf(conn[c].wfile) = fs[TargetOf(conn[c].req.path)].data

C5_Witness ==
    \E c \in ConnIds :
        /\ Closed(c)
        /\ conn[c].req = Get(LiveTest, "HTTP/1.1")
        /\ BodyOf(conn[c].wfile) = <<"<", "v", "i", "b", ">">>

\* C6: a GET of the path of a directory without an index file is answered 200
\* with an HTML page that lists the name of every file in the directory.
C6_DirectoryListed ==
    \A c \in ConnIds :
        (/\ Closed(c)
         /\ PlainGet(conn[c].req)
         /\ PlainTarget(conn[c].req.path)
         /\ Last(conn[c].req.path) = "/"
         /\ IsDirAt(fs, TargetOf(conn[c].req.path))
         /\ ~Exists(fs, Append(TargetOf(conn[c].req.path), N("index.html")))
         /\ ~Exists(fs, Append(TargetOf(conn[c].req.path), N("index.htm"))))
        => /\ StatusOf(conn[c].wfile) = "200"
           /\ \E i \in 1..Len(conn[c].wfile) :
                  /\ conn[c].wfile[i].k = "Content-type"
                  /\ conn[c].wfile[i].v = "text/html; charset=utf-8"
           /\ \A name \in os_listdir(fs, TargetOf(conn[c].req.path)) :
                  IsFileAt(fs, Append(TargetOf(conn[c].req.path), name))
                  => name \in ListedNames(BodyOf(conn[c].wfile))

C6_Witness ==
    \E c \in ConnIds :
        /\ Closed(c)
        /\ conn[c].req = Get(Assets, "HTTP/1.1")
        /\ <<"a", "&", "b.txt">> \in ListedNames(BodyOf(conn[c].wfile))

\* A request line with at least one word has reached the server on c.
Received(c) == conn[c].req.kind = "line" /\ conn[c].req.nwords > 0

Listening == pc \in {"serve", "handling"}

\* C7: once the server listens, every request it receives is answered in the
\* end with the server back in its loop (unless the process is ended from
\* outside first), no request is closed unanswered, and only a signal ends
\* the listening.
C7_LifeCycle ==
    /\ \A c \in ConnIds :
           (conn[c].st = "accepted" /\ conn[c].sent.kind = "line" /\ conn[c].sent.nwords > 0)
               ~> ((Closed(c) /\ conn[c].wfile # <<>> /\ pc = "serve") \/ pc = "exited")
    /\ [](\A c \in ConnIds : Closed(c) /\ Received(c) => conn[c].wfile # <<>>)
    /\ [][Listening /\ ~Listening' => pc' = "exited" /\ exitError' = "signal"]_vars

\* C8: the files are as they were when the process started, and two
\* connections that sent the same request got the same response.
C8_NoWritesNoState ==
    /\ fs = fs0
    /\ \A c, d \in ConnIds :
           Closed(c) /\ Closed(d) /\ conn[c].req = conn[d].req
               => conn[c].wfile = conn[d].wfile

\* C8's case: the same file was served twice.
C8_Witness ==
    \E c, d \in ConnIds :
        /\ c # d
        /\ Closed(c) /\ Closed(d)
        /\ conn[c].req = conn[d].req
        /\ conn[c].opened # {}
        /\ BodyOf(conn[d].wfile) # <<>>

\* C9: at most one accepted connection is open, and while one is, the server
\* accepts no other: the log is accept, close, accept, close, each close that
\* of the connection accepted before it.
C9_OneAtATime ==
    /\ Cardinality({c \in ConnIds : conn[c].st = "accepted"}) <= 1
    /\ (\E c \in ConnIds : conn[c].st = "accepted") => pc # "serve" /\ ~ENABLED Accept
    /\ \A i \in 1..Len(log) :
           IF i % 2 = 1 THEN log[i][1] = "accept"
           ELSE log[i] = <<"close", log[i - 1][2]>>

\* C9's case: a client that has sent nothing is being handled while another,
\* its request sent, waits in the backlog.
C9_Witness ==
    \E c, d \in ConnIds :
        /\ conn[c].st = "accepted" /\ conn[c].sent = NoReq
        /\ conn[d].st = "queued" /\ conn[d].sent # NoReq
        /\ backlog = <<d>>

\* C10: the working directory is changed once, to the root directory, before
\* the socket exists, and stays; every handler is rooted there; and with the
\* root directory missing the process ends on that error with no socket, no
\* announcement and no connection.
C10_RootFixedBeforeListening ==
    /\ [](/\ (sock # "none" \/ stdout # <<>>) => cwd = ROOT
          /\ \A c \in ConnIds : conn[c].st \in {"accepted", "closed"} => conn[c].directory = ROOT
          /\ exitError = "chdir" => ~IsDirAt(fs0, ROOT)
          /\ ~IsDirAt(fs0, ROOT) =>
                 /\ cwd = LAUNCH
                 /\ sock = "none"
                 /\ stdout = <<>>
                 /\ \A c \in ConnIds : conn[c] = IdleConn
                 /\ pc = "exited" => exitError \in {"chdir", "signal"})
    /\ [][cwd' # cwd => cwd = LAUNCH /\ cwd' = ROOT /\ sock = "none"]_vars

\* C10's case: the process ended on the chdir error.
C10_Witness ==
    exitError = "chdir" /\ pc = "exited" /\ sock = "none"

====
